---- MODULE Spec2Model ----
(***************************************************************************)
(* Context (hotword) graph of the wenet decoder runtime:                   *)
(*   runtime/core/decoder/context_graph.cc                                 *)
(*                                                                         *)
(*   ContextGraph::BuildContextGraph     compiles a phrase list into a     *)
(*                                       weighted acceptor and             *)
(*                                       determinizes it;                  *)
(*   ContextGraph::GetNextContextStates  advances a map of active states   *)
(*                                       by one token and returns the      *)
(*                                       (partial, full) match scores.     *)
(*                                                                         *)
(* Strings are sequences of bytes, weights are integers (the tropical      *)
(* semiring of fst::StdArc: Plus is min, Times is +, One is 0), a          *)
(* std::map<int, float> is a function whose domain is its key set, and a   *)
(* unique_ptr / shared_ptr is a sequence of length 0 (null) or 1.          *)
(***************************************************************************)
EXTENDS Integers, Sequences, FiniteSets, TLC

VARIABLES
    config_,            \* ContextGraph::config_
    symbol_table_,      \* ContextGraph::symbol_table_
    graph_,             \* ContextGraph::graph_
    query_contexts,     \* argument of the last BuildContextGraph call
    active,             \* the decoder hypothesis' active-state map
    fed,                \* word ids fed to that hypothesis since {Start: 0}
    call,               \* arguments and results of the last GetNextContextStates
    hyps                \* the hypotheses that step side by side over graph_

vars ==
    <<config_, symbol_table_, graph_, query_contexts, active, fed, call, hyps>>

-----------------------------------------------------------------------------
(* Small helpers.                                                          *)

Min(S) == CHOOSE x \in S : \A y \in S : x <= y

Max(S) == CHOOSE x \in S : \A y \in S : x >= y

\* std::map with no entry.
EmptyMap == <<>>

\* m with m[k] = v inserted or overwritten.
MapPut(m, k, v) == [x \in DOMAIN m \cup {k} |-> IF x = k THEN v ELSE m[x]]

-----------------------------------------------------------------------------
(* utils/string.h: Trim and SplitUTF8StringToChars.                        *)

\* " \n\r\t\f\v"
WHITESPACE == {32, 10, 13, 9, 12, 11}

RECURSIVE Ltrim(_)
Ltrim(str) ==
    IF str = <<>> THEN <<>>
    ELSE IF Head(str) \in WHITESPACE THEN Ltrim(Tail(str))
    ELSE str

RECURSIVE Rtrim(_)
Rtrim(str) ==
    IF str = <<>> THEN <<>>
    ELSE IF str[Len(str)] \in WHITESPACE THEN Rtrim(SubSeq(str, 1, Len(str) - 1))
    ELSE str

Trim(str) == Rtrim(Ltrim(str))

\* Number of bytes of the UTF-8 character whose leading byte is b.
Utf8Bytes(b) ==
    IF b < 128 THEN 1
    ELSE IF b \div 32 = 6 THEN 2
    ELSE IF b \div 16 = 14 THEN 3
    ELSE IF b \div 8 = 30 THEN 4
    ELSE 1

RECURSIVE SplitUTF8StringToChars(_)
SplitUTF8StringToChars(str) ==
    IF str = <<>> THEN <<>>
    ELSE LET bytes == Utf8Bytes(Head(str))
             n == IF bytes > Len(str) THEN Len(str) ELSE bytes
         IN  <<SubSeq(str, 1, n)>>
                 \o SplitUTF8StringToChars(SubSeq(str, n + 1, Len(str)))

-----------------------------------------------------------------------------
(* fst::SymbolTable: a table maps a symbol to its id; Find misses with -1. *)

Find(table, ch) == IF ch \in DOMAIN table THEN table[ch] ELSE -1

-----------------------------------------------------------------------------
(* fst::StdVectorFst: states 0 .. n-1; arcs[s] is the arc list of state s  *)
(* in insertion order; final[s] is the final weight of s, and a state      *)
(* outside DOMAIN final has final weight Zero (not final).                 *)

\* fst::StdArc::Weight::One() of the tropical semiring.
One == 0

StdArc(ilabel, olabel, weight, nextstate) ==
    [ilabel |-> ilabel, olabel |-> olabel, weight |-> weight,
     nextstate |-> nextstate]

NewFst == [n |-> 0, start |-> -1, arcs |-> <<>>, final |-> <<>>]

\* The id AddState returns.
NextStateId(f) == f.n

AddState(f) ==
    [f EXCEPT !.n = f.n + 1,
              !.arcs = [s \in 0 .. f.n |-> IF s < f.n THEN f.arcs[s] ELSE <<>>]]

SetStart(f, s) == [f EXCEPT !.start = s]

SetFinal(f, s, w) == [f EXCEPT !.final = MapPut(f.final, s, w)]

AddArc(f, s, arc) == [f EXCEPT !.arcs[s] = Append(f.arcs[s], arc)]

\* graph.Final(s) == Weight::One()
FinalIsOne(f, s) == s \in DOMAIN f.final /\ f.final[s] = One

-----------------------------------------------------------------------------
(* ContextGraph::BuildContextGraph, lines 24-65: the acceptor before       *)
(* determinization.                                                        *)

\* State 0 is the start state, state 1 is the final state (lines 25-30).
start_state == 0

final_state == 1

\* InitialOfst without the SetFinal of line 30.
InitialOfstNoFinal == SetStart(AddState(AddState(NewFst)), start_state)

InitialOfst ==
    SetFinal(SetStart(AddState(AddState(NewFst)), start_state), final_state, One)

\* AddChars without the escape arcs of lines 55-59.
RECURSIVE AddCharsNoEscape(_, _, _, _, _, _)
AddCharsNoEscape(ofst, chars, i, prev_state, table, cfg) ==
    IF i >= Len(chars) THEN ofst
    ELSE
      LET word_id == Find(table, chars[i + 1]) IN
      IF word_id = -1 THEN ofst
      ELSE
        LET fresh == i < Len(chars) - 1
            next_state == IF fresh THEN NextStateId(ofst) ELSE final_state
            f1 == IF fresh THEN AddState(ofst) ELSE ofst
            f3 == AddArc(f1, prev_state,
                         StdArc(word_id, word_id, cfg.context_score, next_state))
        IN  AddCharsNoEscape(f3, chars, i + 1, next_state, table, cfg)

\* AddChars with the test of line 55 as i >= 0: the start state gets an
\* escape arc too.
RECURSIVE AddCharsEscapeAtStart(_, _, _, _, _, _)
AddCharsEscapeAtStart(ofst, chars, i, prev_state, table, cfg) ==
    IF i >= Len(chars) THEN ofst
    ELSE
      LET word_id == Find(table, chars[i + 1]) IN
      IF word_id = -1 THEN ofst
      ELSE
        LET fresh == i < Len(chars) - 1
            next_state == IF fresh THEN NextStateId(ofst) ELSE final_state
            f1 == IF fresh THEN AddState(ofst) ELSE ofst
            escape_score == (-cfg.context_score) * i
            f2 == AddArc(f1, prev_state,
                         StdArc(0, 0, escape_score, start_state))
            f3 == AddArc(f2, prev_state,
                         StdArc(word_id, word_id, cfg.context_score, next_state))
        IN  AddCharsEscapeAtStart(f3, chars, i + 1, next_state, table, cfg)

\* AddChars with the weight of the match arc of lines 61-62 cumulative:
\* context_score * (i + 1) at index i.
RECURSIVE AddCharsCumulative(_, _, _, _, _, _)
AddCharsCumulative(ofst, chars, i, prev_state, table, cfg) ==
    IF i >= Len(chars) THEN ofst
    ELSE
      LET word_id == Find(table, chars[i + 1]) IN
      IF word_id = -1 THEN ofst
      ELSE
        LET fresh == i < Len(chars) - 1
            next_state == IF fresh THEN NextStateId(ofst) ELSE final_state
            f1 == IF fresh THEN AddState(ofst) ELSE ofst
            escape_score == (-cfg.context_score) * i
            f2 == IF i > 0
                  THEN AddArc(f1, prev_state,
                              StdArc(0, 0, escape_score, start_state))
                  ELSE f1
            f3 == AddArc(f2, prev_state,
                         StdArc(word_id, word_id, cfg.context_score * (i + 1),
                                next_state))
        IN  AddCharsCumulative(f3, chars, i + 1, next_state, table, cfg)

\* AddChars that rolls a phrase back: when a character of the phrase is
\* unknown, nothing of the phrase is added.
RECURSIVE AddCharsRollback(_, _, _, _, _, _)
AddCharsRollback(ofst, chars, i, prev_state, table, cfg) ==
    IF i >= Len(chars) THEN ofst
    ELSE IF \E j \in 1 .. Len(chars) : Find(table, chars[j]) = -1 THEN ofst
    ELSE
      LET word_id == Find(table, chars[i + 1])
          fresh == i < Len(chars) - 1
          next_state == IF fresh THEN NextStateId(ofst) ELSE final_state
          f1 == IF fresh THEN AddState(ofst) ELSE ofst
          escape_score == (-cfg.context_score) * i
          f2 == IF i > 0
                THEN AddArc(f1, prev_state,
                            StdArc(0, 0, escape_score, start_state))
                ELSE f1
          f3 == AddArc(f2, prev_state,
                       StdArc(word_id, word_id, cfg.context_score, next_state))
      IN  AddCharsRollback(f3, chars, i + 1, next_state, table, cfg)

\* AddChars with the escape score of line 56 flat: -context_score at every
\* position.
RECURSIVE AddCharsFlatEscape(_, _, _, _, _, _)
AddCharsFlatEscape(ofst, chars, i, prev_state, table, cfg) ==
    IF i >= Len(chars) THEN ofst
    ELSE
      LET word_id == Find(table, chars[i + 1]) IN
      IF word_id = -1 THEN ofst
      ELSE
        LET fresh == i < Len(chars) - 1
            next_state == IF fresh THEN NextStateId(ofst) ELSE final_state
            f1 == IF fresh THEN AddState(ofst) ELSE ofst
            escape_score == -cfg.context_score
            f2 == IF i > 0
                  THEN AddArc(f1, prev_state,
                              StdArc(0, 0, escape_score, start_state))
                  ELSE f1
            f3 == AddArc(f2, prev_state,
                         StdArc(word_id, word_id, cfg.context_score, next_state))
        IN  AddCharsFlatEscape(f3, chars, i + 1, next_state, table, cfg)

\* Lines 46-64: the loop over the characters of one context, at index i
\* (0-based) with prev_state the state reached so far.
RECURSIVE AddChars(_, _, _, _, _, _)
AddChars(ofst, chars, i, prev_state, table, cfg) ==
    IF i >= Len(chars) THEN ofst
    ELSE
      LET word_id == Find(table, chars[i + 1]) IN
      IF word_id = -1 THEN ofst
      ELSE
        LET fresh == i < Len(chars) - 1
            next_state == IF fresh THEN NextStateId(ofst) ELSE final_state
            f1 == IF fresh THEN AddState(ofst) ELSE ofst
            escape_score == (-cfg.context_score) * i
            f2 == IF i > 0
                  THEN AddArc(f1, prev_state,
                              StdArc(0, 0, escape_score, start_state))
                  ELSE f1
            f3 == AddArc(f2, prev_state,
                         StdArc(word_id, word_id, cfg.context_score, next_state))
        IN  AddChars(f3, chars, i + 1, next_state, table, cfg)

\* Line 35: the length test of one context.
SkipLongContext(context, cfg) == Len(context) > cfg.max_context_length

\* AddContexts with ++count ahead of the length test of line 35: a context
\* skipped for its length is counted too.
RECURSIVE AddContextsCountAll(_, _, _, _, _, _)
AddContextsCountAll(ofst, contexts, k, count, table, cfg) ==
    IF k > Len(contexts) THEN ofst
    ELSE
      LET context == contexts[k] IN
      IF count + 1 > cfg.max_contexts THEN ofst
      ELSE IF SkipLongContext(context, cfg)
      THEN AddContextsCountAll(ofst, contexts, k + 1, count + 1, table, cfg)
      ELSE
        LET chars == SplitUTF8StringToChars(Trim(context))
        IN  AddContextsCountAll(AddChars(ofst, chars, 0, start_state, table, cfg),
                                contexts, k + 1, count + 1, table, cfg)

\* AddContexts with the test of line 39 as count++ > max_contexts: one
\* context more than max_contexts is let through.
RECURSIVE AddContextsPostIncrement(_, _, _, _, _, _)
AddContextsPostIncrement(ofst, contexts, k, count, table, cfg) ==
    IF k > Len(contexts) THEN ofst
    ELSE
      LET context == contexts[k] IN
      IF SkipLongContext(context, cfg)
      THEN AddContextsPostIncrement(ofst, contexts, k + 1, count, table, cfg)
      ELSE IF count > cfg.max_contexts THEN ofst
      ELSE
        LET chars == SplitUTF8StringToChars(Trim(context))
        IN  AddContextsPostIncrement(
                AddChars(ofst, chars, 0, start_state, table, cfg),
                contexts, k + 1, count + 1, table, cfg)

\* Lines 33-65: the loop over the contexts, at index k (1-based) with count
\* the number of contexts counted so far.
RECURSIVE AddContexts(_, _, _, _, _, _)
AddContexts(ofst, contexts, k, count, table, cfg) ==
    IF k > Len(contexts) THEN ofst
    ELSE
      LET context == contexts[k] IN
      IF SkipLongContext(context, cfg)
      THEN AddContexts(ofst, contexts, k + 1, count, table, cfg)
      ELSE IF count + 1 > cfg.max_contexts THEN ofst
      ELSE
        LET chars == SplitUTF8StringToChars(Trim(context))
        IN  AddContexts(AddChars(ofst, chars, 0, start_state, table, cfg),
                        contexts, k + 1, count + 1, table, cfg)

BuildOfst(contexts, table, cfg) ==
    AddContexts(InitialOfst, contexts, 1, 0, table, cfg)

-----------------------------------------------------------------------------
(* fst::Determinize over the tropical semiring (weighted subset            *)
(* construction).  A state of the result is a set of elements              *)
(* [state, weight]: a state of the input and its residual weight.  Label 0 *)
(* is an ordinary symbol.  Subsets are numbered in the order they are      *)
(* found, the start subset first, the arcs of a state by ascending label.  *)

Element(s, w) == [state |-> s, weight |-> w]

\* The arcs leaving state s, as a set.
ArcsOf(ifst, s) == {ifst.arcs[s][j] : j \in 1 .. Len(ifst.arcs[s])}

\* The input labels leaving some state of the subset.
SubsetLabels(ifst, subset) ==
    UNION {{a.ilabel : a \in ArcsOf(ifst, e.state)} : e \in subset}

\* The (next state, path weight) pairs reached from the subset over label l.
LabelTargets(ifst, subset, l) ==
    UNION {{Element(a.nextstate, e.weight + a.weight) :
                a \in {b \in ArcsOf(ifst, e.state) : b.ilabel = l}} :
           e \in subset}

\* Weight of the arc over l: Plus (min) of the path weights.
LabelWeight(targets) == Min({t.weight : t \in targets})

\* Destination subset: each next state once, with its residual weight
\* (Plus of its path weights, divided by the arc weight).
LabelSubset(targets) ==
    LET w == LabelWeight(targets) IN
    {Element(s, Min({t.weight : t \in {u \in targets : u.state = s}}) - w) :
        s \in {t.state : t \in targets}}

\* Final weight of a subset: Plus over its final elements of
\* residual Times final weight; no entry when no element is final.
SubsetFinal(ifst, subset) ==
    {e.weight + ifst.final[e.state] :
        e \in {x \in subset : x.state \in DOMAIN ifst.final}}

\* Index (1-based) of subset in tuples, or 0.
TupleIndex(tuples, subset) ==
    IF \E k \in 1 .. Len(tuples) : tuples[k] = subset
    THEN CHOOSE k \in 1 .. Len(tuples) : tuples[k] = subset
    ELSE 0

\* Expands the arcs of result state q over the labels not yet done, in
\* ascending order.  d = [tuples, fst].
RECURSIVE DetArcs(_, _, _, _)
DetArcs(ifst, d, q, labels) ==
    IF labels = {} THEN d
    ELSE
      LET l == Min(labels)
          targets == LabelTargets(ifst, d.tuples[q + 1], l)
          dest == LabelSubset(targets)
          found == TupleIndex(d.tuples, dest)
          next == IF found = 0 THEN Len(d.tuples) ELSE found - 1
          f1 == IF found = 0 THEN AddState(d.fst) ELSE d.fst
          f2 == AddArc(f1, q, StdArc(l, l, LabelWeight(targets), next))
          t2 == IF found = 0 THEN Append(d.tuples, dest) ELSE d.tuples
      IN  DetArcs(ifst, [tuples |-> t2, fst |-> f2], q, labels \ {l})

\* Expands the result states q, q+1, ... until none is left.
RECURSIVE DetStates(_, _, _)
DetStates(ifst, d, q) ==
    IF q >= Len(d.tuples) THEN d
    ELSE
      LET subset == d.tuples[q + 1]
          fin == SubsetFinal(ifst, subset)
          d1 == IF fin = {} THEN d
                ELSE [d EXCEPT !.fst = SetFinal(d.fst, q, Min(fin))]
          d2 == DetArcs(ifst, d1, q, SubsetLabels(ifst, subset))
      IN  DetStates(ifst, d2, q + 1)

\* The subsets of the determinized automaton, by state id + 1.
DeterminizeTuples(ifst) ==
    DetStates(ifst,
              [tuples |-> <<{Element(ifst.start, One)}>>,
               fst |-> SetStart(AddState(NewFst), 0)], 0).tuples

Determinize(ifst) ==
    DetStates(ifst,
              [tuples |-> <<{Element(ifst.start, One)}>>,
               fst |-> SetStart(AddState(NewFst), 0)], 0).fst

-----------------------------------------------------------------------------
(* ContextGraph::GetNextContextStates, lines 71-107.                       *)
(* r = [partial, full, next]: partial_match_score, full_match_score and    *)
(* the caller's next_active_states.                                        *)

\* VisitArc without the test of line 92: a final target is stored like any
\* other.
VisitArcKeepFinal(graph, arc, score, word_id, r) ==
    IF arc.ilabel = word_id \/ arc.ilabel = 0
    THEN
      LET context_score == score + arc.weight
          partial == IF r.partial < context_score THEN context_score
                     ELSE r.partial
          full == IF FinalIsOne(graph, arc.nextstate) /\ r.full < context_score
                  THEN context_score ELSE r.full
      IN  IF arc.nextstate \notin DOMAIN r.next
             \/ r.next[arc.nextstate] < context_score
          THEN [r EXCEPT !.partial = partial, !.full = full,
                         !.next = MapPut(r.next, arc.nextstate, context_score)]
          ELSE [r EXCEPT !.partial = partial, !.full = full]
    ELSE r

\* VisitArc without the comparison of lines 98-99: the last candidate of a
\* target replaces the stored one.
VisitArcLastWins(graph, arc, score, word_id, r) ==
    IF arc.ilabel = word_id \/ arc.ilabel = 0
    THEN
      LET context_score == score + arc.weight
          partial == IF r.partial < context_score THEN context_score
                     ELSE r.partial
      IN  IF FinalIsOne(graph, arc.nextstate)
          THEN [r EXCEPT !.partial = partial,
                         !.full = IF r.full < context_score THEN context_score
                                  ELSE r.full]
          ELSE [r EXCEPT !.partial = partial,
                         !.next = MapPut(r.next, arc.nextstate, context_score)]
    ELSE r

\* VisitArc that raises the partial score only for an arc into a state
\* that is not final.
VisitArcPartialElse(graph, arc, score, word_id, r) ==
    IF arc.ilabel = word_id \/ arc.ilabel = 0
    THEN
      LET context_score == score + arc.weight
          partial == IF r.partial < context_score THEN context_score
                     ELSE r.partial
      IN  IF FinalIsOne(graph, arc.nextstate)
          THEN [r EXCEPT !.full = IF r.full < context_score THEN context_score
                                  ELSE r.full]
          ELSE IF arc.nextstate \notin DOMAIN r.next
                  \/ r.next[arc.nextstate] < context_score
          THEN [r EXCEPT !.partial = partial,
                         !.next = MapPut(r.next, arc.nextstate, context_score)]
          ELSE [r EXCEPT !.partial = partial]
    ELSE r

\* Lines 88-103: one arc of an active state with the given score.
VisitArc(graph, arc, score, word_id, r) ==
    IF arc.ilabel = word_id \/ arc.ilabel = 0
    THEN
      LET context_score == score + arc.weight
          partial == IF r.partial < context_score THEN context_score
                     ELSE r.partial
      IN  IF FinalIsOne(graph, arc.nextstate)
          THEN [r EXCEPT !.partial = partial,
                         !.full = IF r.full < context_score THEN context_score
                                  ELSE r.full]
          ELSE IF arc.nextstate \notin DOMAIN r.next
                  \/ r.next[arc.nextstate] < context_score
          THEN [r EXCEPT !.partial = partial,
                         !.next = MapPut(r.next, arc.nextstate, context_score)]
          ELSE [r EXCEPT !.partial = partial]
    ELSE r

\* Lines 84-104: the arcs of one active state, from index j on, in order.
RECURSIVE VisitArcs(_, _, _, _, _, _)
VisitArcs(graph, state, j, score, word_id, r) ==
    IF j > Len(graph.arcs[state]) THEN r
    ELSE VisitArcs(graph, state, j + 1, score, word_id,
                   VisitArc(graph, graph.arcs[state][j], score, word_id, r))

\* Lines 80-105: the active states not yet visited, in key order.
RECURSIVE VisitStates(_, _, _, _, _)
VisitStates(graph, active_states, todo, word_id, r) ==
    IF todo = {} THEN r
    ELSE
      LET state == Min(todo)
      IN  VisitStates(graph, active_states, todo \ {state}, word_id,
                      VisitArcs(graph, state, 1, active_states[state],
                                word_id, r))

\* GetNextContextStates reading the hypothesis the decoder holds, left by
\* the step before, in place of its argument active_states.
GetNextContextStatesMember(graph, active_states, word_id, next_active_states) ==
    IF DOMAIN active = {} \/ graph = <<>>
    THEN [partial |-> 0, full |-> 0, next |-> next_active_states]
    ELSE VisitStates(graph[1], active, DOMAIN active, word_id,
                     [partial |-> 0, full |-> 0, next |-> next_active_states])

GetNextContextStates(graph, active_states, word_id, next_active_states) ==
    IF DOMAIN active_states = {} \/ graph = <<>>
    THEN [partial |-> 0, full |-> 0, next |-> next_active_states]
    ELSE VisitStates(graph[1], active_states, DOMAIN active_states, word_id,
                     [partial |-> 0, full |-> 0, next |-> next_active_states])

-----------------------------------------------------------------------------
(* Inputs.                                                                 *)

\* Longest list of contexts given to BuildContextGraph.
MaxQueryContexts == 2

\* Characters, as UTF-8 byte strings.
ch_c == <<99>>
ch_a == <<97>>
ch_t == <<116>>
ch_sp == <<32>>
ch_mao == <<231, 140, 171>>
ch_mi == <<229, 146, 170>>

\* Two symbol tables.  Neither knows " ".  The second one gives "c" the
\* id 0, the id of <blank>, and knows neither "t" nor the wide characters.
SymbolsA ==
    (ch_c :> 1) @@ (ch_a :> 2) @@ (ch_t :> 3) @@ (ch_mao :> 4) @@ (ch_mi :> 5)

SymbolsB == (ch_c :> 0) @@ (ch_a :> 2)

SymbolTables == {SymbolsA, SymbolsB}

\* The context strings the lists are made of.
Contexts ==
    { ch_sp,                                  \* " "
      ch_c,                                   \* "c"
      ch_c \o ch_a,                           \* "ca"
      ch_c \o ch_t,                           \* "ct"
      ch_t \o ch_c,                           \* "tc"
      ch_c \o ch_a \o ch_t,                   \* "cat"
      ch_c \o ch_a \o ch_c,                   \* "cac"
      ch_sp \o ch_c \o ch_a \o ch_t \o ch_sp, \* " cat "
      ch_mao \o ch_mi,                        \* two wide characters
      ch_c \o ch_a \o ch_t \o ch_c \o ch_a }  \* "catca"

ContextLists ==
    UNION {[1 .. n -> Contexts] : n \in 0 .. MaxQueryContexts}

\* ContextConfig values.
Configs ==
    { [max_contexts |-> 1, max_context_length |-> 4, context_score |-> 1],
      [max_contexts |-> 2, max_context_length |-> 4, context_score |-> 2] }

\* Word ids the decoder feeds.
WordIds == 0 .. 5

\* Most entries of an active-state map handed to GetNextContextStates
\* directly.
MaxActive == 2

\* Scores of those entries.
Scores == {-1, 2}

\* The maps over at most n of the given states.
Maps(states, n) ==
    UNION {[S -> Scores] : S \in {T \in SUBSET states : Cardinality(T) <= n}}

-----------------------------------------------------------------------------
(* Derived views of the inputs and of the graph.                           *)

\* The characters of a context, as BuildContextGraph splits it.
Chars(context) == SplitUTF8StringToChars(Trim(context))

\* Their word ids (-1 for an unknown one).
Ids(context, table) ==
    LET chars == Chars(context)
    IN  [i \in 1 .. Len(chars) |-> Find(table, chars[i])]

IsPrefix(p, q) == Len(p) <= Len(q) /\ SubSeq(q, 1, Len(p)) = p

Built == symbol_table_ # <<>>

\* The ids fed are no longer the beginning of any context.
Untracked == <<-2>>

Track(f, word_id) ==
    LET g == Append(f, word_id) IN
    IF f # Untracked
       /\ \E k \in 1 .. Len(query_contexts) :
              IsPrefix(g, Ids(query_contexts[k], symbol_table_[1]))
    THEN g ELSE Untracked

NoCall == <<>>

CallRecord(active_states, word_id, next_in, r) ==
    <<[active_states |-> active_states, word_id |-> word_id,
       next_in |-> next_in, partial |-> r.partial, full |-> r.full,
       next |-> r.next]>>

\* The hypotheses that step side by side, and each one as a decoding
\* session starts it: at {Start: 0} (Start is state 0, line 26), no token
\* fed, no score returned yet.
Hyps == 1 .. 2

NewHyps ==
    [h \in Hyps |-> [active_states |-> (start_state :> 0), tokens |-> <<>>,
                     partial |-> 0, full |-> 0]]

\* The hypothesis of a new decoding session: {Start: 0}.
StartActive(graph) == IF graph = <<>> THEN (0 :> 0) ELSE (graph[1].start :> 0)

-----------------------------------------------------------------------------
(* The state machine.                                                      *)

\* ContextGraph::ContextGraph(): no graph, no symbol table.
Init ==
    /\ config_ \in Configs
    /\ symbol_table_ = <<>>
    /\ graph_ = <<>>
    /\ query_contexts = <<>>
    /\ active = (0 :> 0)
    /\ fed = <<>>
    /\ call = NoCall
    /\ hyps = NewHyps

\* BuildResult without the early return of lines 19-22.
BuildResultNoReset(contexts, table, cfg) ==
    <<Determinize(BuildOfst(contexts, table, cfg))>>

\* BuildContextGraph(contexts, symbol_table) as a whole, lines 14-69.
\* CHECK(symbol_table != nullptr) leaves only calls with a table.
BuildResult(contexts, table, cfg) ==
    IF contexts = <<>> THEN <<>>
    ELSE <<Determinize(BuildOfst(contexts, table, cfg))>>

\* The graph is built once, before decoding starts; a later call with no
\* context drops it (lines 19-22).
BuildContextGraph(contexts, table) ==
    /\ call = NoCall
    /\ Built => contexts = <<>>
    /\ symbol_table_' = <<table>>
    /\ query_contexts' = contexts
    /\ graph_' = BuildResult(contexts, table, config_)
    /\ active' = StartActive(graph_')
    /\ hyps' = NewHyps
    /\ UNCHANGED <<config_, fed, call>>

\* DecoderStep of a caller that puts Start back into an empty map before
\* the call.
DecoderStepReinsert(word_id) ==
    /\ Built
    /\ LET from == IF active = EmptyMap THEN StartActive(graph_) ELSE active
           r == GetNextContextStates(graph_, from, word_id, EmptyMap)
       IN  /\ call' = CallRecord(from, word_id, EmptyMap, r)
           /\ active' = r.next
           /\ fed' = Track(fed, word_id)
    /\ UNCHANGED <<config_, symbol_table_, graph_, query_contexts, hyps>>

\* The decoder, once the graph is built, advances its hypothesis by one
\* word id, with a fresh map for the next active states.
DecoderStep(word_id) ==
    /\ Built
    /\ LET r == GetNextContextStates(graph_, active, word_id, EmptyMap) IN
         /\ call' = CallRecord(active, word_id, EmptyMap, r)
         /\ active' = r.next
         /\ fed' = Track(fed, word_id)
    /\ UNCHANGED <<config_, symbol_table_, graph_, query_contexts, hyps>>

Next ==
    \/ \E contexts \in ContextLists, table \in SymbolTables :
           BuildContextGraph(contexts, table)
    \/ \E word_id \in WordIds : DecoderStep(word_id)

Spec == Init /\ [][Next]_vars

-----------------------------------------------------------------------------
(* GetNextContextStates called directly: any active-state map over the     *)
(* states of the graph, any word id, and a next_active_states map that is  *)
(* empty or already holds an entry.  The function reads graph_ and writes  *)
(* nothing but its results, so one call after the build shows every call.  *)

GraphStates == IF graph_ = <<>> THEN {0, 1} ELSE 0 .. graph_[1].n - 1

\* The lists built before a direct call: no context, one context, and two
\* pairs of contexts with a common prefix.
CallLists ==
    {l \in ContextLists : Len(l) <= 1}
        \cup { <<ch_c \o ch_a, ch_c \o ch_a \o ch_t>>,
               <<ch_c \o ch_t, ch_c \o ch_a \o ch_c>> }

\* What next_active_states holds when the call starts.
NextIns == Maps({0}, 1)

Call(active_states, word_id, next_active_states) ==
    /\ Built
    /\ call = NoCall
    /\ call' = CallRecord(active_states, word_id, next_active_states,
                          GetNextContextStates(graph_, active_states, word_id,
                                               next_active_states))
    /\ UNCHANGED <<config_, symbol_table_, graph_, query_contexts, active, fed,
                   hyps>>

NextCall ==
    \/ \E contexts \in CallLists, table \in SymbolTables :
           BuildContextGraph(contexts, table)
    \/ \E active_states \in Maps(GraphStates, MaxActive),
          word_id \in WordIds,
          next_active_states \in NextIns :
           Call(active_states, word_id, next_active_states)

SpecCall == Init /\ [][NextCall]_vars

-----------------------------------------------------------------------------
(* Vocabulary of the properties.                                           *)

\* The last call, when there is one.
Last == call[1]

Table == symbol_table_[1]

Graph == graph_[1]

\* Word ids of the k-th context of the list.
IdsOf(k) == Ids(query_contexts[k], Table)

\* Number of tokens of the k-th context.
TokensOf(k) == Len(Chars(query_contexts[k]))

\* Every token of the k-th context is in the symbol table.
AllKnown(k) == \A i \in 1 .. TokensOf(k) : IdsOf(k)[i] # -1

\* ... and none has the id 0.
AllNonZero(k) == \A i \in 1 .. TokensOf(k) : IdsOf(k)[i] >= 1

\* The list holds one phrase whose tokens are all known.
OnePhrase ==
    /\ Built
    /\ Len(query_contexts) = 1
    /\ TokensOf(1) >= 1
    /\ AllKnown(1)

\* The hypothesis has just consumed the last token of the k-th context,
\* having been fed its tokens in order from {Start: 0}.
Consumed(k) == call # NoCall /\ fed = IdsOf(k)

-----------------------------------------------------------------------------
\* C1: one phrase of L >= 1 known tokens with non-zero ids and
\* L <= max_context_length: fed in order from {Start: 0}, the call that
\* consumes the last token returns fullScore = context_score * L.
C1_FullScore ==
    ( /\ OnePhrase
      /\ AllNonZero(1)
      /\ TokensOf(1) <= config_.max_context_length
      /\ Consumed(1) )
    => Last.full = config_.context_score * TokensOf(1)

\* C1 with the length counted as the code counts it, in bytes of the
\* untrimmed string.
C1_FullScoreBytes ==
    ( /\ OnePhrase
      /\ AllNonZero(1)
      /\ ~SkipLongContext(query_contexts[1], config_)
      /\ Consumed(1) )
    => Last.full = config_.context_score * TokensOf(1)

-----------------------------------------------------------------------------
\* The list holds two different phrases, both compiled (neither skipped for
\* length nor cut off by max_contexts), all tokens known, with a common
\* prefix of at least one token.
TwoPhrases ==
    /\ Built
    /\ Len(query_contexts) = 2
    /\ config_.max_contexts >= 2
    /\ \A k \in 1 .. 2 :
          /\ ~SkipLongContext(query_contexts[k], config_)
          /\ TokensOf(k) >= 1
          /\ AllKnown(k)
    /\ IdsOf(1) # IdsOf(2)
    /\ IdsOf(1)[1] = IdsOf(2)[1]

\* One of the two is the beginning of the other.
ProperPrefix == IsPrefix(IdsOf(1), IdsOf(2)) \/ IsPrefix(IdsOf(2), IdsOf(1))

\* C2: two different compiled phrases with a common prefix (one may be a
\* proper prefix of the other): feeding the tokens of either one from
\* {Start: 0} reports fullScore = context_score * (its length) on the call
\* that consumes its last token.
C2_SharedPrefix ==
    TwoPhrases =>
        \A k \in 1 .. 2 :
            Consumed(k) => Last.full = config_.context_score * TokensOf(k)

\* C2 for two phrases of which neither is the beginning of the other and no
\* token has the id 0.
C2_NoProperPrefix ==
    (TwoPhrases /\ ~ProperPrefix /\ AllNonZero(1) /\ AllNonZero(2)) =>
        \A k \in 1 .. 2 :
            Consumed(k) => Last.full = config_.context_score * TokensOf(k)

-----------------------------------------------------------------------------
\* The one phrase of the list is compiled.
OneCompiled == OnePhrase /\ ~SkipLongContext(query_contexts[1], config_)

\* C3: for a single compiled phrase of L known tokens fed in order from
\* {Start: 0}, the map returned by the call that consumes the last token is
\* empty.
C3_EmptyAfterLast == (OneCompiled /\ Consumed(1)) => Last.next = EmptyMap

\* C3 as the code has it: that map is empty exactly when L = 1; for L >= 2
\* the escape arc of the last intermediate state is followed as well, so
\* the map has an entry; it never holds a final state.
C3_AfterLast ==
    (OneCompiled /\ Consumed(1)) =>
        /\ (Last.next = EmptyMap) <=> (TokensOf(1) = 1)
        /\ \A s \in DOMAIN Last.next : ~FinalIsOne(Graph, s)
        /\ (TokensOf(1) >= 2 /\ AllNonZero(1)) =>
               (Graph.start \in DOMAIN Last.next /\ Last.next[Graph.start] = 0)

C3_Witness ==
    /\ OneCompiled
    /\ Consumed(1)
    /\ TokensOf(1) = 3
    /\ Last.full = 3 * config_.context_score
    /\ Last.next = (0 :> 0)

-----------------------------------------------------------------------------
\* C4: whatever is fed from {Start: 0}, each call with an empty output map,
\* no state whose final weight is One is a key of the returned map.
C4_FinalNotRetained ==
    /\ \A s \in DOMAIN active : graph_ # <<>> => ~FinalIsOne(Graph, s)
    /\ call # NoCall =>
           \A s \in DOMAIN Last.next : graph_ # <<>> => ~FinalIsOne(Graph, s)

\* A call reached the final state and returned a non-empty map.
C4_Witness ==
    /\ call # NoCall
    /\ Last.next_in = EmptyMap
    /\ Last.full > 0
    /\ Last.next # EmptyMap
    /\ fed = Untracked

-----------------------------------------------------------------------------
\* No token of the list has the id 0.
NoBlankToken ==
    \A k \in 1 .. Len(query_contexts) :
        \A i \in 1 .. TokensOf(k) : IdsOf(k)[i] # 0

\* Some arc leaving s carries the input label l.
HasArc(s, l) == \E a \in ArcsOf(Graph, s) : a.ilabel = l

\* The last call started from {Start: 0} with an empty output map.
FromStart ==
    /\ call # NoCall
    /\ graph_ # <<>>
    /\ Last.active_states = (Graph.start :> 0)
    /\ Last.next_in = EmptyMap

\* C8: in a graph built from phrases without the id 0, a call from
\* {Start: 0} with a word id that labels no arc of Start returns (0, 0) and
\* an empty map.
C8_NoMatchAtStart ==
    (FromStart /\ NoBlankToken /\ ~HasArc(Graph.start, Last.word_id)) =>
        /\ Last.partial = 0
        /\ Last.full = 0
        /\ Last.next = EmptyMap

C8_Witness ==
    /\ FromStart
    /\ NoBlankToken
    /\ Graph.arcs[Graph.start] # <<>>
    /\ ~HasArc(Graph.start, Last.word_id)
    /\ Last.partial = 0
    /\ Last.next = EmptyMap

-----------------------------------------------------------------------------
\* The arcs the last call follows: <<s, j>> is the j-th arc of the active
\* state s, labelled with the word id or with 0.
Followed ==
    UNION {{<<s, j>> : j \in {i \in 1 .. Len(Graph.arcs[s]) :
                                Graph.arcs[s][i].ilabel \in {Last.word_id, 0}}} :
           s \in DOMAIN Last.active_states}

Target(c) == Graph.arcs[c[1]][c[2]].nextstate

\* score + arc weight
Candidate(c) == Last.active_states[c[1]] + Graph.arcs[c[1]][c[2]].weight

\* A call on a present graph with a non-empty active-state map and an
\* empty output map.
FullCall ==
    /\ call # NoCall
    /\ graph_ # <<>>
    /\ Last.active_states # EmptyMap
    /\ Last.next_in = EmptyMap

\* C5: such a call returns partialScore = max of 0 and every candidate,
\* fullScore = max of 0 and the candidates whose target is final, and a map
\* from each non-final target to the largest candidate reaching it.
C5_StepResult ==
    FullCall =>
        /\ Last.partial = Max({0} \cup {Candidate(c) : c \in Followed})
        /\ Last.full =
               Max({0} \cup {Candidate(c) :
                                c \in {d \in Followed : FinalIsOne(Graph, Target(d))}})
        /\ DOMAIN Last.next =
               {Target(c) : c \in {d \in Followed : ~FinalIsOne(Graph, Target(d))}}
        /\ \A t \in DOMAIN Last.next :
               Last.next[t] =
                   Max({Candidate(c) : c \in {d \in Followed : Target(d) = t}})

\* Two active states reach one target with different candidates, the later
\* one smaller, while another arc reaches the final state.
C5_Witness ==
    /\ FullCall
    /\ Last.full > 0
    /\ \E c, d \in Followed :
          /\ c[1] < d[1]
          /\ Target(c) = Target(d)
          /\ Candidate(d) < Candidate(c)
          /\ Candidate(d) < 0

-----------------------------------------------------------------------------
\* The acceptor before determinization, as the last build made it.
Ofst == BuildOfst(query_contexts, Table, config_)

NoArc(f) == \A s \in 0 .. f.n - 1 : f.arcs[s] = <<>>

\* C6: after Build the automaton is absent if and only if no usable phrase
\* was compiled, so also when every phrase of a non-empty list is filtered
\* out.
C6_AbsentIffNothingCompiled == Built => ((graph_ = <<>>) <=> NoArc(Ofst))

-----------------------------------------------------------------------------
\* The fast path of the last call: no graph, or no active state.
FastPath == call # NoCall /\ (graph_ = <<>> \/ Last.active_states = EmptyMap)

\* C7: after Build with an empty list the automaton is absent, and every
\* call on the fast path returns (0, 0) with an empty next-state map.
C7_FastPathEmpty ==
    /\ (Built /\ query_contexts = <<>>) => graph_ = <<>>
    /\ FastPath =>
           (Last.partial = 0 /\ Last.full = 0 /\ Last.next = EmptyMap)

\* C7 as the code has it: the fast path returns (0, 0) and leaves the
\* caller's next-state map as it was, empty only if it was passed empty.
C7_FastPathUntouched ==
    /\ (Built /\ query_contexts = <<>>) => graph_ = <<>>
    /\ FastPath =>
           (Last.partial = 0 /\ Last.full = 0 /\ Last.next = Last.next_in)

\* A call without a graph, after an empty list, with active states and an
\* output map that both hold an entry.
C7_Witness ==
    /\ Built
    /\ query_contexts = <<>>
    /\ graph_ = <<>>
    /\ call # NoCall
    /\ Last.active_states # EmptyMap
    /\ Last.next_in # EmptyMap
    /\ Last.next = Last.next_in

-----------------------------------------------------------------------------
\* C9: a phrase is skipped for length exactly when its number of tokens,
\* after trimming, exceeds max_context_length, whatever the byte width of
\* its characters.
C9_SkippedIffTooManyTokens ==
    Built =>
        \A k \in 1 .. Len(query_contexts) :
            SkipLongContext(query_contexts[k], config_)
                <=> (TokensOf(k) > config_.max_context_length)

-----------------------------------------------------------------------------
\* The first n elements of a sequence.
Take(seq, n) == SubSeq(seq, 1, IF n < Len(seq) THEN n ELSE Len(seq))

NotLong(context) == ~SkipLongContext(context, config_)

\* The contexts that pass the length test of line 35, in input order.
PassLength == SelectSeq(query_contexts, NotLong)

\* C10: of a list with more phrases than max_contexts only phrases among
\* its first max_contexts are compiled; every later one is ignored.
C10_FirstOfList ==
    (Built /\ Len(query_contexts) > config_.max_contexts) =>
        Ofst = BuildOfst(Take(query_contexts, config_.max_contexts),
                         Table, config_)

\* C10 as the code has it: the phrases compiled are the first max_contexts
\* of those that pass the length test; every phrase after them is ignored.
C10_FirstThatPass ==
    (Built /\ query_contexts # <<>>) =>
        graph_ = <<Determinize(BuildOfst(Take(PassLength, config_.max_contexts),
                                         Table, config_))>>

\* The list is longer than max_contexts, its first phrase is skipped for
\* length, and a phrase after the first max_contexts is compiled.
C10_Witness ==
    /\ Built
    /\ Len(query_contexts) > config_.max_contexts
    /\ SkipLongContext(query_contexts[1], config_)
    /\ Len(PassLength) = config_.max_contexts
    /\ graph_ # <<>>
    /\ ~NoArc(Graph)

-----------------------------------------------------------------------------
\* The state at position i of the chain of a phrase of L tokens, in the
\* acceptor before determinization: Start, then the fresh states 2, 3, ...
\* in the order AddState made them, then Final.
OfstChainState(i, L) ==
    IF i = 0 THEN start_state ELSE IF i = L THEN final_state ELSE i + 1

\* The same in the determinized graph of a single phrase: the states are
\* numbered along the chain.
GraphChainState(i, L) == i

\* The arcs the claim gives the state at position i < L: for i >= 1 the
\* escape arc, label 0, weight -s * i, to Start; then the match arc of the
\* token at position i, weight s, to the state at position i + 1.
ChainArcs(i, ids, s, from, to) ==
    (IF i >= 1 THEN <<StdArc(0, 0, (-s) * i, from)>> ELSE <<>>)
        \o <<StdArc(ids[i + 1], ids[i + 1], s, to)>>

\* C11: one compiled phrase of L known tokens, bonus s: the acceptor Build
\* constructs has the states Start, Final and L - 1 fresh ones and exactly
\* these arcs: from the state at each position i < L the match arc of
\* weight s labelled with the i-th token id to the state at position i + 1,
\* and for 1 <= i < L the escape arc labelled 0 of weight -s * i to Start;
\* Final has no arc.  With non-zero token ids the determinized graph is the
\* same chain.
C11_Chain ==
    OneCompiled =>
        LET L == TokensOf(1)
            s == config_.context_score
        IN  /\ Ofst.n = L + 1
            /\ Ofst.start = start_state
            /\ Ofst.arcs[final_state] = <<>>
            /\ \A i \in 0 .. L - 1 :
                   Ofst.arcs[OfstChainState(i, L)] =
                       ChainArcs(i, IdsOf(1), s, start_state,
                                 OfstChainState(i + 1, L))
            /\ AllNonZero(1) =>
                   /\ Graph.n = L + 1
                   /\ Graph.start = GraphChainState(0, L)
                   /\ DOMAIN Graph.final = {GraphChainState(L, L)}
                   /\ Graph.arcs[GraphChainState(L, L)] = <<>>
                   /\ \A i \in 0 .. L - 1 :
                          Graph.arcs[GraphChainState(i, L)] =
                              ChainArcs(i, IdsOf(1), s, GraphChainState(0, L),
                                        GraphChainState(i + 1, L))

\* "cat" with context_score 1: weights 1, 1, 1 and the escapes -1 and -2.
C11_Witness ==
    /\ OneCompiled
    /\ TokensOf(1) = 3
    /\ AllNonZero(1)
    /\ config_.context_score = 1
    /\ Ofst.arcs[3] = <<StdArc(0, 0, -2, 0), StdArc(3, 3, 1, 1)>>
    /\ Graph.arcs[1] = <<StdArc(0, 0, -1, 0), StdArc(2, 2, 1, 2)>>
    /\ Graph.arcs[2] = <<StdArc(0, 0, -2, 0), StdArc(3, 3, 1, 3)>>

-----------------------------------------------------------------------------
(* GetNextContextStates called twice on one graph with the same            *)
(* active_states and word_id: the direct call, then steps of the decoder's *)
(* own hypothesis, then the same call again with any content of            *)
(* next_active_states.  call holds the records of both calls.              *)

\* A step of the decoder's hypothesis between the two calls.
OtherStep(word_id) ==
    /\ Len(call) = 1
    /\ active = StartActive(graph_)
    /\ active' = GetNextContextStates(graph_, active, word_id, EmptyMap).next
    /\ UNCHANGED <<config_, symbol_table_, graph_, query_contexts, fed, call,
                   hyps>>

\* The first call again.
Recall(next_active_states) ==
    /\ Len(call) = 1
    /\ call' = call \o
                 CallRecord(call[1].active_states, call[1].word_id,
                            next_active_states,
                            GetNextContextStates(graph_, call[1].active_states,
                                                 call[1].word_id,
                                                 next_active_states))
    /\ UNCHANGED <<config_, symbol_table_, graph_, query_contexts, active, fed,
                   hyps>>

NextRepeat ==
    \/ \E contexts \in CallLists, table \in SymbolTables :
           BuildContextGraph(contexts, table)
    \/ \E active_states \in Maps(GraphStates, MaxActive),
          word_id \in WordIds,
          next_active_states \in NextIns :
           Call(active_states, word_id, next_active_states)
    \/ \E word_id \in WordIds : OtherStep(word_id)
    \/ \E next_active_states \in NextIns : Recall(next_active_states)

SpecRepeat == Init /\ [][NextRepeat]_vars

\* The same call was made twice.
Twice == Len(call) = 2

\* The scores and the map a call returned.
Returned(c) == <<c.partial, c.full, c.next>>

\* C12: two calls with the same active_states and word_id on one graph
\* return the same scores and the same next-state map, whatever happened
\* between them and whatever next_active_states held before each.
C12_SameResult ==
    (Twice /\ call[1].active_states = call[2].active_states
           /\ call[1].word_id = call[2].word_id)
        => Returned(call[1]) = Returned(call[2])

\* C12 as the code has it: the two calls return the same scores whatever
\* next_active_states held, and the same map when next_active_states held
\* the same entries before both calls.
C12_SameResultSameOutputMap ==
    (Twice /\ call[1].active_states = call[2].active_states
           /\ call[1].word_id = call[2].word_id)
        => /\ call[1].partial = call[2].partial
           /\ call[1].full = call[2].full
           /\ call[1].next_in = call[2].next_in => call[1].next = call[2].next

\* The second call follows a step of the decoder's hypothesis, both calls
\* start with the same entry in next_active_states, follow an arc and
\* return a positive score.
C12_Witness ==
    /\ Twice
    /\ active # StartActive(graph_)
    /\ call[1].next_in # EmptyMap
    /\ call[1].next_in = call[2].next_in
    /\ call[2].partial > 0
    /\ call[2].next # call[2].next_in

-----------------------------------------------------------------------------
(* Several hypotheses step over one built graph in any order, each with    *)
(* its own active-state map and a fresh map for its next active states.    *)
(* GetNextContextStates is const and reads graph_ and its arguments only,  *)
(* so a call is one step whatever the threads' schedule.                   *)

\* Longest token sequence fed to one hypothesis.
MaxFed == 2

\* Word ids fed to the hypotheses.
HypWordIds == 0 .. 3

\* The lists built for them.
HypLists ==
    { <<ch_c \o ch_a \o ch_t>>,
      <<ch_c \o ch_a, ch_c \o ch_a \o ch_t>>,
      <<ch_c \o ch_t, ch_c \o ch_a \o ch_c>> }

\* StepHyp with one next_active_states buffer for all hypotheses, never
\* cleared: the call of h finds in it what the other hypothesis holds.
StepHypShared(h, word_id) ==
    /\ Built
    /\ Len(hyps[h].tokens) < MaxFed
    /\ LET other == CHOOSE g \in Hyps : g # h
           r == GetNextContextStates(graph_, hyps[h].active_states, word_id,
                                     hyps[other].active_states)
       IN  hyps' = [hyps EXCEPT ![h] =
                       [active_states |-> r.next,
                        tokens |-> Append(@.tokens, word_id),
                        partial |-> r.partial, full |-> r.full]]
    /\ UNCHANGED <<config_, symbol_table_, graph_, query_contexts, active, fed,
                   call>>

\* Hypothesis h consumes one word id.
StepHyp(h, word_id) ==
    /\ Built
    /\ Len(hyps[h].tokens) < MaxFed
    /\ LET r == GetNextContextStates(graph_, hyps[h].active_states, word_id,
                                     EmptyMap)
       IN  hyps' = [hyps EXCEPT ![h] =
                       [active_states |-> r.next,
                        tokens |-> Append(@.tokens, word_id),
                        partial |-> r.partial, full |-> r.full]]
    /\ UNCHANGED <<config_, symbol_table_, graph_, query_contexts, active, fed,
                   call>>

NextHyps ==
    \/ \E contexts \in HypLists, table \in SymbolTables :
           BuildContextGraph(contexts, table)
    \/ \E h \in Hyps, word_id \in HypWordIds : StepHyp(h, word_id)

SpecHyps == Init /\ [][NextHyps]_vars

\* One hypothesis running alone over graph: what it holds after the first
\* n of the tokens, fed in order from {Start: 0}.
RECURSIVE RunAlone(_, _, _)
RunAlone(graph, tokens, n) ==
    IF n = 0
    THEN [active_states |-> StartActive(graph), tokens |-> <<>>,
          partial |-> 0, full |-> 0]
    ELSE LET before == RunAlone(graph, tokens, n - 1)
             r == GetNextContextStates(graph, before.active_states, tokens[n],
                                       EmptyMap)
         IN  [active_states |-> r.next, tokens |-> SubSeq(tokens, 1, n),
              partial |-> r.partial, full |-> r.full]

-----------------------------------------------------------------------------
\* The states of the acceptor before determinization other than Start and
\* Final: the fresh ones of line 53.
Intermediate == 2 .. Ofst.n - 1

\* Position of a state along its phrase: Start is at 0, a fresh state one
\* further than the state whose match arc enters it.
RECURSIVE Position(_)
Position(q) ==
    IF q = start_state THEN 0
    ELSE 1 + Position(CHOOSE p \in 0 .. Ofst.n - 1 :
                          \E a \in ArcsOf(Ofst, p) : a.nextstate = q)

\* Indices of the arcs of q labelled 0 that lead to Start.
EscapeArcs(q) ==
    {j \in 1 .. Len(Ofst.arcs[q]) :
        Ofst.arcs[q][j].ilabel = 0 /\ Ofst.arcs[q][j].nextstate = start_state}

HasEscape(q) ==
    /\ Cardinality(EscapeArcs(q)) = 1
    /\ \A j \in EscapeArcs(q) :
           Ofst.arcs[q][j].weight = (-config_.context_score) * Position(q)

\* C14: in the acceptor Build constructs, before determinization, every
\* state other than Start and Final, at position i >= 1 of its phrase, has
\* exactly one arc labelled 0 to Start, of weight -context_score * i; also
\* in a phrase truncated at an unknown token.
C14_EscapeEverywhere ==
    Built => \A q \in Intermediate : HasEscape(q)

\* C14 for the states that a match arc leaves: the last state of a
\* truncated phrase, which no arc leaves, is the only one without escape.
C14_EscapeUnlessDeadEnd ==
    Built => \A q \in Intermediate :
                 /\ Ofst.arcs[q] # <<>> => HasEscape(q)
                 /\ Ofst.arcs[q] = <<>> => \E k \in 1 .. Len(query_contexts) :
                                               ~AllKnown(k)

-----------------------------------------------------------------------------
\* The first phrase of the list is counted (it passes the length test and
\* max_contexts is at least 1) and one of its tokens is unknown.
FirstTruncated ==
    /\ Built
    /\ Len(query_contexts) >= 1
    /\ ~SkipLongContext(query_contexts[1], config_)
    /\ config_.max_contexts >= 1
    /\ ~AllKnown(1)

\* Position (0-based) of the first unknown token of the first phrase.
FirstUnknown ==
    Min({i \in 0 .. TokensOf(1) - 1 : IdsOf(1)[i + 1] = -1})

\* The acceptor after the first phrase alone.
OfstOfFirst == BuildOfst(<<query_contexts[1]>>, Table, config_)

\* Some arc of f enters state q.
Entered(f, q) ==
    \E p \in 0 .. f.n - 1 : \E a \in ArcsOf(f, p) : a.nextstate = q

\* C15: when token k of the counted first phrase is its first unknown one,
\* the phrase leaves in the acceptor the chain of its tokens 0 .. k-1 (k
\* fresh states, k match arcs and their escape arcs), no arc for token k or
\* a later one and no arc into Final; a second phrase that is counted too
\* is then compiled onto that acceptor like onto any other.
C15_TruncatedPrefixKept ==
    FirstTruncated =>
        LET k == FirstUnknown
            L == TokensOf(1)
        IN  /\ OfstOfFirst.n = 2 + k
            /\ \A i \in 0 .. k - 1 :
                   OfstOfFirst.arcs[OfstChainState(i, L)] =
                       ChainArcs(i, IdsOf(1), config_.context_score,
                                 start_state, OfstChainState(i + 1, L))
            /\ OfstOfFirst.arcs[OfstChainState(k, L)] = <<>>
            /\ OfstOfFirst.arcs[final_state] = <<>>
            /\ ~Entered(OfstOfFirst, final_state)
            /\ ( /\ Len(query_contexts) = 2
                 /\ config_.max_contexts >= 2
                 /\ ~SkipLongContext(query_contexts[2], config_) )
               => /\ Ofst = AddChars(OfstOfFirst, Chars(query_contexts[2]), 0,
                                     start_state, Table, config_)
                  /\ graph_ = <<Determinize(Ofst)>>
                  /\ (TokensOf(2) >= 1 /\ AllKnown(2))
                         => Entered(Ofst, final_state)

\* The first phrase is truncated at its third token, its two match arcs
\* are there, and the second phrase, all known, reaches Final.
C15_Witness ==
    /\ FirstTruncated
    /\ FirstUnknown = 2
    /\ Len(query_contexts) = 2
    /\ config_.max_contexts >= 2
    /\ ~SkipLongContext(query_contexts[2], config_)
    /\ TokensOf(2) = 2
    /\ AllKnown(2)
    /\ Len(OfstOfFirst.arcs[2]) = 2
    /\ OfstOfFirst.arcs[3] = <<>>
    /\ Entered(Ofst, final_state)

-----------------------------------------------------------------------------
\* The phrases that use up the count of line 39: the first max_contexts of
\* those that pass the length test.
Counted == Take(PassLength, config_.max_contexts)

\* The first token of a phrase is known: the phrase adds an arc that
\* leaves Start, and only such a phrase adds any arc.
StartsArc(context) ==
    Len(Chars(context)) >= 1 /\ Ids(context, Table)[1] # -1

\* C16: a phrase skipped for length uses up nothing of max_contexts, a
\* phrase that passes the length test does, also when an unknown token
\* truncates it, and at most max_contexts phrases add arcs: the arcs that
\* leave Start in the acceptor are one for each phrase, among the first
\* max_contexts that pass the length test, whose first token is known.
C16_CountBudget ==
    Built =>
        /\ Len(Ofst.arcs[start_state]) =
               Cardinality({k \in 1 .. Len(Counted) : StartsArc(Counted[k])})
        /\ Len(Ofst.arcs[start_state]) <= config_.max_contexts
        /\ (\A k \in 1 .. Len(Counted) : ~StartsArc(Counted[k])) => NoArc(Ofst)

\* max_contexts is 1; the first phrase passes the length test and is
\* truncated at its first token; the second phrase, all known, is not
\* compiled.
C16_Witness ==
    /\ Built
    /\ Len(query_contexts) = 2
    /\ config_.max_contexts = 1
    /\ Len(PassLength) = 2
    /\ ~StartsArc(query_contexts[1])
    /\ TokensOf(1) >= 1
    /\ TokensOf(2) >= 1
    /\ AllKnown(2)
    /\ NoArc(Ofst)

-----------------------------------------------------------------------------
\* The states of f whose final weight is One.
FinalStates(f) == {q \in 0 .. f.n - 1 : FinalIsOne(f, q)}

\* The ids of a phrase up to its first unknown token: what is compiled.
KnownIds(context) ==
    LET ids == Ids(context, Table)
        unknown == {i \in 1 .. Len(ids) : ids[i] = -1}
    IN  IF unknown = {} THEN ids ELSE SubSeq(ids, 1, Min(unknown) - 1)

\* The k-th counted phrase is compiled in full, up to Final.
InFull(k) ==
    LET ids == Ids(Counted[k], Table)
    IN  Len(ids) >= 1 /\ \A i \in 1 .. Len(ids) : ids[i] # -1

\* A phrase compiled in full is the beginning of what is compiled of
\* another, longer one.
SomeProperPrefix ==
    \E j, k \in 1 .. Len(Counted) :
        /\ InFull(j)
        /\ KnownIds(Counted[j]) # KnownIds(Counted[k])
        /\ IsPrefix(KnownIds(Counted[j]), KnownIds(Counted[k]))

\* C17: the graph Build returns has one start state and exactly one final
\* state (final weight One), without outgoing arc, whatever the list.
C17_OneFinalReturned ==
    (Built /\ graph_ # <<>>) =>
        /\ Graph.start \in 0 .. Graph.n - 1
        /\ Cardinality(FinalStates(Graph)) = 1
        /\ DOMAIN Graph.final = FinalStates(Graph)
        /\ \A q \in FinalStates(Graph) : Graph.arcs[q] = <<>>

\* C17 as the code has it.  Before determinization: one start state, one
\* final state, of weight One and without outgoing arc, which every phrase
\* compiled in full enters.  In the graph returned: one start state; no
\* final state exactly when no phrase is compiled in full; with non-zero
\* ids and no phrase the beginning of another, at most one final state,
\* of weight One and without outgoing arc; with non-zero ids and a phrase
\* that is the beginning of another, a final state that has outgoing arcs.
C17_OneFinalConstructed ==
    (Built /\ graph_ # <<>>) =>
        /\ Ofst.start = start_state
        /\ DOMAIN Ofst.final = {final_state}
        /\ FinalIsOne(Ofst, final_state)
        /\ Ofst.arcs[final_state] = <<>>
        /\ \A k \in 1 .. Len(Counted) : InFull(k) => Entered(Ofst, final_state)
        /\ Graph.start = 0
        /\ (DOMAIN Graph.final = {}) <=> (\A k \in 1 .. Len(Counted) : ~InFull(k))
        /\ (NoBlankToken /\ ~SomeProperPrefix) =>
               /\ Cardinality(DOMAIN Graph.final) <= 1
               /\ DOMAIN Graph.final = FinalStates(Graph)
               /\ \A q \in FinalStates(Graph) : Graph.arcs[q] = <<>>
        /\ (NoBlankToken /\ SomeProperPrefix) =>
               \E q \in FinalStates(Graph) : Graph.arcs[q] # <<>>

\* "ca" and "cat" style list: one final state before determinization, two
\* in the graph returned, one of them with an outgoing arc.
C17_Witness ==
    /\ Built
    /\ graph_ # <<>>
    /\ NoBlankToken
    /\ SomeProperPrefix
    /\ DOMAIN Ofst.final = {final_state}
    /\ Cardinality(FinalStates(Graph)) = 2
    /\ \E q \in FinalStates(Graph) : Graph.arcs[q] # <<>>

-----------------------------------------------------------------------------
\* Number of match arcs (arcs with a non-zero label) from Start to state q
\* of the graph.
RECURSIVE MatchArcsTo(_)
MatchArcsTo(q) ==
    IF q = Graph.start THEN 0
    ELSE 1 + MatchArcsTo(CHOOSE p \in 0 .. Graph.n - 1 :
                             \E a \in ArcsOf(Graph, p) :
                                 a.ilabel # 0 /\ a.nextstate = q)

\* The score of every entry of m is context_score times the number of
\* match arcs that lead to its state.
ScoresByDepth(m) ==
    \A q \in DOMAIN m : m[q] = config_.context_score * MatchArcsTo(q)

\* C18: in a graph built from phrases without the id 0 (context_score > 0),
\* whatever is fed from {Start: 0}, every entry (state, score) of the
\* active-state map has score = context_score * (number of match arcs from
\* Start to the state); the entry of Start has score 0.
C18_ScoreByDepth ==
    (Built /\ graph_ # <<>> /\ NoBlankToken /\ config_.context_score > 0) =>
        /\ ScoresByDepth(active)
        /\ Graph.start \in DOMAIN active => active[Graph.start] = 0
        /\ call # NoCall => ScoresByDepth(Last.active_states)

\* A hypothesis two tokens into a phrase is fed a token that does not
\* continue it: it is back at Start with score 0.
C18_Witness ==
    /\ Built
    /\ graph_ # <<>>
    /\ NoBlankToken
    /\ call # NoCall
    /\ \E q \in DOMAIN Last.active_states :
           /\ Last.active_states[q] = 2 * config_.context_score
           /\ ~HasArc(q, Last.word_id)
    /\ Last.word_id # 0
    /\ active = (Graph.start :> 0)

-----------------------------------------------------------------------------
\* C19: once a call has returned an empty map, every later call of the
\* hypothesis, which passes that map on, returns (0, 0) and an empty map
\* for every word id; and a first call from {Start: 0}, in a graph of
\* phrases without the id 0, with a word id that labels no arc of Start,
\* already returns the empty map.
C19_Absorbing ==
    [][ /\ (call # NoCall /\ active = EmptyMap) =>
               /\ call' # NoCall
               /\ call'[1].active_states = EmptyMap
               /\ call'[1].partial = 0
               /\ call'[1].full = 0
               /\ call'[1].next = EmptyMap
               /\ active' = EmptyMap
        /\ ( /\ graph_ # <<>>
             /\ NoBlankToken
             /\ active = (Graph.start :> 0)
             /\ call' # NoCall
             /\ ~HasArc(Graph.start, call'[1].word_id) )
           => active' = EmptyMap ]_vars

\* A hypothesis without active state was fed a word id that labels an arc
\* of Start, and got nothing.
C19_Witness ==
    /\ call # NoCall
    /\ graph_ # <<>>
    /\ Last.active_states = EmptyMap
    /\ Last.word_id # 0
    /\ HasArc(Graph.start, Last.word_id)
    /\ Last.partial = 0
    /\ Last.full = 0
    /\ active = EmptyMap

-----------------------------------------------------------------------------
\* C20: every call, whatever the graph, the active states (negative scores
\* too), the word id and the output map, returns 0 <= full <= partial.
C20_ScoreOrder ==
    call # NoCall => (0 <= Last.full /\ Last.full <= Last.partial)

\* A call with a negative score among its active states reaches the final
\* state with a positive candidate, the largest of the call.
C20_Witness ==
    /\ call # NoCall
    /\ graph_ # <<>>
    /\ \E q \in DOMAIN Last.active_states : Last.active_states[q] < 0
    /\ Last.full > 0
    /\ Last.full = Last.partial

====
